---- MODULE Spec2Model ----
(***************************************************************************)
(* Control panel of the SRWToolkit bot platform: the session/config        *)
(* synchronisation of store/actions/communicationActions.ts together with  *)
(* the ControlPanel component that drives it.                              *)
(*                                                                         *)
(* JavaScript values are modelled as strings: "undefined" and "null" are   *)
(* the two empty values, "true" and "false" the booleans, anything else a  *)
(* string.  A JavaScript object is a function from its own keys to such    *)
(* values; a key the object lacks reads as "undefined" (Get).              *)
(***************************************************************************)
EXTENDS Integers, Sequences, FiniteSets, TLC

\* ------------------------------------------------------------------ bounds

\* Sockets the client may create in one page session.
MaxSockets == 2
\* handlePromptSubmit calls whose fetches are still in flight.
MaxPrompts == 1

\* ------------------------------------------------------- JavaScript values

Undefined == "undefined"
Null == "null"

Get(o, k) == IF k \in DOMAIN o THEN o[k] ELSE Undefined

\* if (v) ...
Truthy(v) == v \notin {Undefined, Null, "", "false"}

\* !v for a boolean-valued field
Not(v) == IF Truthy(v) THEN "false" ELSE "true"

\* s.trim() is non-empty
NonBlank(s) == s \notin {"", " "}

\* ------------------------------------------------------------- utils/index

LS_COMMUNICATION_ID_KEY == "communicationId"

socketReceiveMsgTypes ==
  { "UI_ERROR", "CLOSE_CONNECTION", "INVALID_COMMUNICATION_ID", "ERROR",
    "IS_BOT_CONNECTED", "NEW_CONTROL_PANEL_DETECTED", "SYSTEM_CONFIG",
    "PING_STATE", "USER_INPUT" }

socketSendMsgTypes == { "UPDATE_CONFIG", "PING", "SEND_TEXT", "SEND_AUDIO" }

ConnectionStatus == { "CONNECTING", "CONNECTED", "NOT_CONNECTED" }

\* ------------------------------------------------------------ input domains

\* Communication ids the backend hands out.
Ids == { "id1", "id2" }

\* Configurations the backend may push in a SYSTEM_CONFIG message.
ServerConfigs ==
  { [ skin |-> "simple", audio_enabled |-> "true", text_enabled |-> "true",
      llm_model |-> "m1", voice_language_code |-> "en", voice_gender |-> "f",
      proactive_mode_enabled |-> "false", subtitles_enabled |-> "false" ],
    [ skin |-> "fullbot", audio_enabled |-> "false", text_enabled |-> "true",
      llm_model |-> "m1", voice_language_code |-> "en", voice_gender |-> "f",
      proactive_mode_enabled |-> "true", custom_prompt_suffix |-> "p0" ] }

\* The data field of an inbound message.  present = FALSE: the message has no
\* data field; hasConfig = FALSE: data has no config field.
NoConfig == [ none |-> "none" ]

Data(present, hasConfig, cfg, message, value, bot, text, audio) ==
  [ present |-> present, hasConfig |-> hasConfig, config |-> cfg,
    message |-> message, value |-> value, is_bot_connected |-> bot,
    text |-> text, audio |-> audio ]

NoData ==
  Data(FALSE, FALSE, NoConfig, Undefined, Undefined, Undefined, Undefined, Undefined)

EmptyData ==
  Data(TRUE, FALSE, NoConfig, Undefined, Undefined, Undefined, Undefined, Undefined)

DataValues ==
  { NoData, EmptyData }
    \cup { Data(TRUE, TRUE, c, Undefined, Undefined, Undefined, Undefined, Undefined) :
             c \in ServerConfigs }
    \cup { Data(TRUE, FALSE, NoConfig, "msg", v, Undefined, Undefined, Undefined) :
             v \in { "true", Undefined } }
    \cup { Data(TRUE, FALSE, NoConfig, Undefined, "false", "true", Undefined, Undefined),
           Data(TRUE, FALSE, NoConfig, Undefined, Undefined, Undefined, "hi", Undefined),
           Data(TRUE, FALSE, NoConfig, Undefined, Undefined, Undefined, Undefined, "wav") }

\* Message types the backend may put in the envelope: the nine known ones, a
\* type the client does not know, and no type field at all.
InboundTypes == socketReceiveMsgTypes \cup { "SOMETHING_ELSE", Undefined }

\* event.data of a MessageEvent: text that is not JSON, JSON null, a JSON
\* number, or a JSON object { type, data }.
Payloads ==
  { [ json |-> j, type |-> Undefined, data |-> NoData ] :
      j \in { "invalid", "null", "number" } }
    \cup { [ json |-> "object", type |-> t, data |-> d ] :
             t \in InboundTypes, d \in DataValues }

\* What the operator may type into the custom prompt box.
Prompts == { " ", "p1" }

\* ControlPanel inputs that end in socketUpdateConfig.
PanelHandlers ==
  { "handleMicClick", "handleKeyboardClick", "handleSkinChange",
    "handleSelectInput", "handleProactiveModeClick", "handleSubtitlesToggle",
    "useEffectDefaultModel" }

\* Answers of POST /api/set-prompt-suffix.
SuffixAnswers == { "ok", "rejected", "notjson", "neterror" }

\* -------------------------------------------------------------------- state

VARIABLES
  connectionStatus,   \* store.communication.connectionStatus
  loading,            \* store.communication.loading
  communicationId,    \* store.communication.communicationId
  config,             \* store.communication.config (a SystemConfig)
  isBotConnected,     \* store.communication.isBotConnected
  localStorage,       \* localStorage[LS_COMMUNICATION_ID_KEY], Null if absent
  socket,             \* the module variable: 0 is null, else an index of sockets
  sockets,            \* every WebSocket created so far
  pingTimers,         \* intervals started by initPing and still running
  pendingCreates,     \* createCommunication requests in flight
  mounted,            \* the application has dispatched loadOrCreateCommunication
  customPrompt,       \* ControlPanel useState: the prompt box
  promptReqs,         \* handlePromptSubmit calls awaiting a fetch
  lastSystemConfig,   \* history: data.config of the last SYSTEM_CONFIG received
  ev                  \* log of the last handler run: what it dispatched and sent

vars ==
  << connectionStatus, loading, communicationId, config, isBotConnected,
     localStorage, socket, sockets, pingTimers, pendingCreates, mounted,
     customPrompt, promptReqs, lastSystemConfig, ev >>

NoSnackbar == [ message |-> "none", type |-> "NONE" ]
NoMsg == [ type |-> "none" ]

\* The log entry of a handler that did nothing observable.
Ev(kind) ==
  [ kind |-> kind, sock |-> 0, type |-> Undefined, threw |-> FALSE, runs |-> 0,
    dispatched |-> << >>, snackbar |-> NoSnackbar, sent |-> NoMsg,
    arg |-> Undefined ]

\* store/slices/communicationSlice: the configuration before the backend has
\* pushed one.
InitialConfig ==
  [ skin |-> "simple", audioEnabled |-> "true", textEnabled |-> "true",
    llmModel |-> "", voiceLanguageCode |-> "", voiceGender |-> "",
    proactiveModeEnabled |-> "false", subtitlesEnabled |-> "true" ]

\* ------------------------------------------------------ pure functions

\* { ...o, [k]: v }
Spread(o, k, v) == [ x \in DOMAIN o \cup { k } |-> IF x = k THEN v ELSE o[x] ]

messageToJson(p) ==
  IF p.json = "invalid"
    THEN [ json |-> "object", type |-> "UI_ERROR",
           data |-> Data(TRUE, FALSE, NoConfig, "Error parsing json!", Undefined,
                         Undefined, Undefined, Undefined) ]
    ELSE p

parseSocketConfig(data) ==
  [ skin |-> Get(data, "skin"),
    audioEnabled |-> Get(data, "audio_enabled"),
    textEnabled |-> Get(data, "text_enabled"),
    llmModel |-> Get(data, "llm_model"),
    voiceLanguageCode |-> Get(data, "voice_language_code"),
    voiceGender |-> Get(data, "voice_gender"),
    proactiveModeEnabled |-> Get(data, "proactive_mode_enabled"),
    subtitlesEnabled |->
      IF Get(data, "subtitles_enabled") \in { Undefined, Null }
        THEN "true" ELSE Get(data, "subtitles_enabled") ]

makeSocketConfig(data) ==
  [ skin |-> Get(data, "skin"),
    audio_enabled |-> Get(data, "audioEnabled"),
    text_enabled |-> Get(data, "textEnabled"),
    llm_model |-> Get(data, "llmModel"),
    voice_language_code |-> Get(data, "voiceLanguageCode"),
    voice_gender |-> Get(data, "voiceGender"),
    proactive_mode_enabled |-> Get(data, "proactiveModeEnabled"),
    subtitles_enabled |->
      IF Get(data, "subtitlesEnabled") # Undefined
        THEN Get(data, "subtitlesEnabled") ELSE "true" ]

\* apis: new WebSocket(url of communicationId) with the four callbacks attached.
\* closeFired: the socket's close event has been delivered.
initializeWebSocket(id) ==
  [ id |-> id, readyState |-> "CONNECTING", closeFired |-> FALSE ]

\* Variant: a socket in its closing handshake is still written to.
handleSocketMessageSend_WritesWhileClosing(data) ==
  IF \/ socket = 0
     \/ sockets[socket].readyState = "CONNECTING"
     \/ sockets[socket].readyState = "CLOSED"
    THEN NoMsg
    ELSE data

\* What handleSocketMessageSend(data) writes to the socket: data, or nothing.
handleSocketMessageSend(data) ==
  IF \/ socket = 0
     \/ sockets[socket].readyState = "CONNECTING"
     \/ sockets[socket].readyState = "CLOSING"
     \/ sockets[socket].readyState = "CLOSED"
    THEN NoMsg
    ELSE data

\* ------------------------------------------------ the inbound message switch

Keep == "keep"

\* Values of lastSystemConfig besides a configuration: no SYSTEM_CONFIG message
\* has been received; the last one had no data.config.
NotReceived == [ none |-> "not received" ]
MissingConfig == [ none |-> "missing" ]

\* The history of SYSTEM_CONFIG messages after message m.
Received(m) ==
  IF m.json = "object" /\ m.type = "SYSTEM_CONFIG"
    THEN IF m.data.present /\ m.data.hasConfig THEN m.data.config ELSE MissingConfig
    ELSE lastSystemConfig

\* What one branch of the switch does: whether it threw, the store actions it
\* dispatched, the snackbar it showed, the value given to
\* setBotConnectedStatus (Keep: none) and to setConfig (NoConfig: none).
Quiet ==
  [ threw |-> FALSE, dispatched |-> << >>, snackbar |-> NoSnackbar,
    bot |-> Keep, cfg |-> NoConfig ]

\* Reading a property of undefined: a TypeError leaves the handler.
Threw == [ Quiet EXCEPT !.threw = TRUE ]

Show(message, type) ==
  [ Quiet EXCEPT !.dispatched = << "showSnackbar" >>,
                 !.snackbar = [ message |-> message, type |-> type ] ]

SetBot(r, value) ==
  [ r EXCEPT !.dispatched = Append(@, "setBotConnectedStatus"), !.bot = value ]

\* Variant: a type the client does not know is reported to the operator.
RouteDefault_Reports == Show("Unknown message type", "ERROR")

\* default: of the switch.
RouteDefault == [ Quiet EXCEPT !.dispatched = << "doNothing" >> ]

\* Every case of the switch except INVALID_COMMUNICATION_ID.
Route(type, data) ==
  CASE type \in { "UI_ERROR", "CLOSE_CONNECTION", "NEW_CONTROL_PANEL_DETECTED" } ->
         IF ~data.present THEN Threw ELSE Show(data.message, "ERROR")
    [] type = "ERROR" ->
         IF ~data.present THEN Threw
         ELSE IF Truthy(data.message) THEN Show(data.message, "ERROR")
         ELSE Quiet
    [] type = "SYSTEM_CONFIG" ->
         IF ~data.present \/ ~data.hasConfig THEN Threw
         ELSE [ Quiet EXCEPT !.dispatched = << "setConfig" >>,
                             !.cfg = parseSocketConfig(data.config) ]
    [] type = "IS_BOT_CONNECTED" ->
         IF ~data.present THEN Threw
         ELSE IF Truthy(data.message)
           THEN SetBot(Show(data.message, "INFO"), data.value)
           ELSE SetBot(Quiet, data.value)
    [] type = "PING_STATE" ->
         IF ~data.present THEN Threw
         ELSE SetBot(Quiet, IF data.is_bot_connected \in { Undefined, Null }
                              THEN "false" ELSE data.is_bot_connected)
    [] type = "USER_INPUT" ->
         IF Truthy(data.text) THEN Show("User said: " \o data.text, "INFO")
         ELSE IF Truthy(data.audio)
           THEN Show("User sent audio (forwarded to control panel)", "INFO")
         ELSE Quiet
    [] OTHER -> RouteDefault

\* ------------------------------------------------------------ connection

initAndHandleWebsocket(id) ==
  /\ sockets' = Append(sockets, initializeWebSocket(id))
  /\ socket' = Len(sockets) + 1

\* The store actions loadOrCreateCommunication dispatches before it returns or
\* awaits, given the stored id it read.
RunDispatched(stored) ==
  << "setLoading", "setConnectionStatus" >>
    \o (IF Truthy(stored) THEN << "setCommunicationId" >> ELSE << >>)

\* Variant: the stored id is used for the socket but not put in the store.
loadOrCreateCommunication_NoSetId(stored) ==
  /\ loading' = TRUE
  /\ connectionStatus' = "CONNECTING"
  /\ IF Truthy(stored)
       THEN /\ communicationId' = communicationId
            /\ initAndHandleWebsocket(stored)
            /\ pendingCreates' = pendingCreates
       ELSE /\ pendingCreates' = pendingCreates + 1
            /\ UNCHANGED << communicationId, socket, sockets >>

\* loadOrCreateCommunication up to its return or its await; stored is what
\* localStorage.getItem gives at that moment.
loadOrCreateCommunication(stored) ==
  /\ loading' = TRUE
  /\ connectionStatus' = "CONNECTING"
  /\ IF Truthy(stored)
       THEN /\ communicationId' = stored
            /\ initAndHandleWebsocket(stored)
            /\ pendingCreates' = pendingCreates
       ELSE /\ pendingCreates' = pendingCreates + 1
            /\ UNCHANGED << communicationId, socket, sockets,
                  lastSystemConfig >>

loadOrCreateCommunicationSuccess(id) ==
  /\ localStorage' = id
  /\ communicationId' = id
  /\ loading' = FALSE
  /\ initAndHandleWebsocket(id)
  /\ ev' = [ Ev("createSuccess") EXCEPT
               !.dispatched = << "setCommunicationId", "setLoading" >>,
               !.arg = id ]
  /\ UNCHANGED << connectionStatus, config, isBotConnected, pingTimers, mounted,
                  customPrompt, promptReqs,
                  lastSystemConfig >>

\* Variant: the failure handler forgets to reset loading.
loadOrCreateCommunicationFailure_KeepsLoading ==
  /\ loading' = loading
  /\ connectionStatus' = "NOT_CONNECTED"
  /\ ev' = [ Ev("createFailure") EXCEPT
               !.dispatched = << "showSnackbar", "setConnectionStatus" >>,
               !.snackbar = [ message |-> "Communication creation failed!",
                              type |-> "ERROR" ] ]
  /\ UNCHANGED << communicationId, config, isBotConnected, localStorage, socket,
                  sockets, pingTimers, mounted, customPrompt, promptReqs,
                  lastSystemConfig >>

loadOrCreateCommunicationFailure ==
  /\ loading' = FALSE
  /\ connectionStatus' = "NOT_CONNECTED"
  /\ ev' = [ Ev("createFailure") EXCEPT
               !.dispatched = << "showSnackbar", "setLoading", "setConnectionStatus" >>,
               !.snackbar = [ message |-> "Communication creation failed!",
                              type |-> "ERROR" ] ]
  /\ UNCHANGED << communicationId, config, isBotConnected, localStorage, socket,
                  sockets, pingTimers, mounted, customPrompt, promptReqs,
                  lastSystemConfig >>

\* Variant: the open handler reports the socket as still connecting.
handleConnectionOnOpen_StillConnecting ==
  /\ pingTimers' = pingTimers + 1
  /\ connectionStatus' = "CONNECTING"

handleConnectionOnOpen ==
  /\ pingTimers' = pingTimers + 1
  /\ connectionStatus' = "CONNECTED"

handleSocketOnError == connectionStatus' = "NOT_CONNECTED"

handleSocketOnClose == connectionStatus' = "NOT_CONNECTED"

\* Variant: the rejected id is left in localStorage before connecting again.
onInvalidCommunicationId_KeepsKey(s) ==
  /\ localStorage' = localStorage
  /\ loadOrCreateCommunication(localStorage')
  /\ ev' = [ Ev("message") EXCEPT !.sock = s, !.type = "INVALID_COMMUNICATION_ID",
                                  !.runs = 1,
                                  !.dispatched = RunDispatched(localStorage') ]
  /\ UNCHANGED << config, isBotConnected, pingTimers, mounted, customPrompt,
                  promptReqs, lastSystemConfig >>

\* case INVALID_COMMUNICATION_ID of the switch, on a message of socket s.
onInvalidCommunicationId(s) ==
  /\ localStorage' = Null
  /\ loadOrCreateCommunication(localStorage')
  /\ ev' = [ Ev("message") EXCEPT !.sock = s, !.type = "INVALID_COMMUNICATION_ID",
                                  !.runs = 1,
                                  !.dispatched = RunDispatched(localStorage') ]
  /\ UNCHANGED << config, isBotConnected, pingTimers, mounted, customPrompt,
                  promptReqs,
                  lastSystemConfig >>

\* ControlPanel useEffect([config]): a truthy customPromptSuffix of the new
\* config is copied into the prompt box.
EffectCustomPrompt(cfg) ==
  IF Truthy(Get(cfg, "customPromptSuffix"))
    THEN Get(cfg, "customPromptSuffix") ELSE customPrompt

\* The other cases, applied to the store, for message m of socket s with
\* outcome r.
onRouted(s, m, r) ==
  /\ isBotConnected' = IF r.bot = Keep THEN isBotConnected ELSE r.bot
  /\ config' = IF r.cfg = NoConfig THEN config ELSE r.cfg
  /\ customPrompt' = EffectCustomPrompt(config')
  /\ lastSystemConfig' = Received(m)
  /\ ev' = [ Ev("message") EXCEPT !.sock = s, !.type = m.type, !.threw = r.threw,
                                  !.dispatched = r.dispatched,
                                  !.snackbar = r.snackbar ]
  /\ UNCHANGED << connectionStatus, loading, communicationId, localStorage,
                  socket, sockets, pingTimers, pendingCreates, mounted,
                  promptReqs >>

\* Variant: CLOSE_CONNECTION is answered like INVALID_COMMUNICATION_ID, by
\* dropping the stored id and connecting again.
handleSocketOnMessage_ReconnectOnClose(s, p) ==
  LET m == messageToJson(p) IN
    IF m.json = "null"
      THEN onRouted(s, m, Threw)
      ELSE IF m.type = "INVALID_COMMUNICATION_ID"
        THEN onInvalidCommunicationId(s)
        ELSE IF m.type = "CLOSE_CONNECTION"
          THEN /\ localStorage' = Null
               /\ loadOrCreateCommunication(localStorage')
               /\ ev' = [ Ev("message") EXCEPT
                            !.sock = s, !.type = "CLOSE_CONNECTION", !.runs = 1,
                            !.dispatched = RunDispatched(localStorage') ]
               /\ UNCHANGED << config, isBotConnected, pingTimers, mounted,
                               customPrompt, promptReqs,
                  lastSystemConfig >>
          ELSE onRouted(s, m, Route(m.type, m.data))

handleSocketOnMessage(s, p) ==
  LET m == messageToJson(p) IN
    IF m.json = "null"
      THEN \* destructuring { type, data } of null throws
           onRouted(s, m, Threw)
      ELSE IF m.type = "INVALID_COMMUNICATION_ID"
        THEN onInvalidCommunicationId(s)
        ELSE onRouted(s, m, Route(m.type, m.data))

\* ------------------------------------------------------------- outbound

\* Variant: the store is updated optimistically with the configuration sent.
socketUpdateConfig_Optimistic(kind, arg, cfg) ==
  /\ ev' = [ Ev(kind) EXCEPT
               !.sent = handleSocketMessageSend(
                          [ type |-> "UPDATE_CONFIG",
                            config |-> makeSocketConfig(cfg) ]),
               !.dispatched = << "doNothing" >>,
               !.arg = arg ]
  /\ config' = cfg

\* socketUpdateConfig(cfg), called by the ControlPanel handler `kind`; arg is
\* logged with it.
socketUpdateConfig(kind, arg, cfg) ==
  /\ ev' = [ Ev(kind) EXCEPT
               !.sent = handleSocketMessageSend(
                          [ type |-> "UPDATE_CONFIG",
                            config |-> makeSocketConfig(cfg) ]),
               !.dispatched = << "doNothing" >>,
               !.arg = arg ]
  /\ config' = config

sendTextToLLM(text) ==
  IF ~Truthy(text) \/ ~NonBlank(text)
    THEN [ Ev("sendTextToLLM") EXCEPT
             !.dispatched = << "showSnackbar" >>,
             !.snackbar = [ message |-> "Please provide text to send to the AI",
                            type |-> "ERROR" ] ]
    ELSE [ Ev("sendTextToLLM") EXCEPT
             !.sent = handleSocketMessageSend(
                        [ type |-> "SEND_TEXT", text |-> text ]),
             !.dispatched = << "showSnackbar" >>,
             !.snackbar = [ message |-> "Sent text to AI", type |-> "INFO" ] ]

\* The callback initPing hands to setInterval.
initPing == [ Ev("ping") EXCEPT !.sent = handleSocketMessageSend([ type |-> "PING" ]) ]

\* ----------------------------------------------------------- ControlPanel

Skins == { "fullbot", "faceonly" }

\* One operator input: the handler, and the name and value of its event.
PanelInputs ==
  { [ h |-> h, name |-> "", value |-> "" ] :
      h \in { "handleMicClick", "handleKeyboardClick", "handleProactiveModeClick",
              "handleSubtitlesToggle" } }
    \cup { [ h |-> "handleSkinChange", name |-> "", value |-> v ] : v \in Skins }
    \cup { [ h |-> "handleSelectInput", name |-> n, value |-> v ] :
             n \in { "llmModel", "skin" }, v \in { "", "x" } }
    \cup { [ h |-> "useEffectDefaultModel", name |-> "", value |-> v ] :
             v \in { "", "m2" } }

\* The configuration the handler passes to socketUpdateConfig, NoConfig when it
\* returns without calling it.  For useEffectDefaultModel value is
\* availableModels[0], "" when the list is empty.
PanelConfig(i) ==
  CASE i.h = "handleMicClick" ->
         Spread(config, "audioEnabled", Not(Get(config, "audioEnabled")))
    [] i.h = "handleKeyboardClick" ->
         Spread(config, "textEnabled", Not(Get(config, "textEnabled")))
    [] i.h = "handleSkinChange" -> Spread(config, "skin", i.value)
    [] i.h = "handleSelectInput" ->
         IF i.name \notin { "llmModel", "voiceLanguageCode", "voiceGender" }
              \/ ~Truthy(i.value)
           THEN NoConfig
           ELSE Spread(config, i.name, i.value)
    [] i.h = "handleProactiveModeClick" ->
         Spread(config, "proactiveModeEnabled",
                Not(Get(config, "proactiveModeEnabled")))
    [] i.h = "handleSubtitlesToggle" ->
         Spread(config, "subtitlesEnabled", Not(Get(config, "subtitlesEnabled")))
    [] OTHER ->
         IF ~Truthy(Get(config, "llmModel")) /\ i.value # ""
           THEN Spread(config, "llmModel", i.value)
           ELSE NoConfig

Remove(seq, i) == [ j \in 1..(Len(seq) - 1) |-> IF j < i THEN seq[j] ELSE seq[j + 1] ]

\* handlePromptSubmit up to its first await.
handlePromptSubmit ==
  /\ IF ~NonBlank(customPrompt)
       THEN promptReqs' = promptReqs
       ELSE promptReqs' =
              Append(promptReqs,
                     [ stage |-> "saving", config |-> config,
                       suffix |-> customPrompt ])
  /\ ev' = Ev("handlePromptSubmit")
  /\ UNCHANGED << connectionStatus, loading, communicationId, config,
                  isBotConnected, localStorage, socket, sockets, pingTimers,
                  pendingCreates, mounted, customPrompt,
                  lastSystemConfig >>

\* handlePromptSubmit resumed by the answer to POST /api/set-prompt-suffix.
handlePromptSubmitAnswer(i, answer) ==
  /\ IF answer = "ok"
       THEN /\ socketUpdateConfig(
                 "promptSaved", promptReqs[i].suffix,
                 Spread(promptReqs[i].config, "customPromptSuffix",
                        promptReqs[i].suffix))
            /\ promptReqs' = [ promptReqs EXCEPT ![i].stage = "clearing" ]
       ELSE /\ ev' = [ Ev("promptFailed") EXCEPT !.arg = answer ]
            /\ config' = config
            /\ promptReqs' = Remove(promptReqs, i)
  /\ UNCHANGED << connectionStatus, loading, communicationId, isBotConnected,
                  localStorage, socket, sockets, pingTimers, pendingCreates,
                  mounted, customPrompt,
                  lastSystemConfig >>

\* handlePromptSubmit resumed by the answer to POST /api/clear-history.
handlePromptSubmitDone(i) ==
  /\ promptReqs' = Remove(promptReqs, i)
  /\ ev' = Ev("promptDone")
  /\ UNCHANGED << connectionStatus, loading, communicationId, config,
                  isBotConnected, localStorage, socket, sockets, pingTimers,
                  pendingCreates, mounted, customPrompt,
                  lastSystemConfig >>

\* handleSendToAI with userInput = text.
handleSendToAI(text) ==
  IF ~Truthy(communicationId) \/ ~NonBlank(text)
    THEN Ev("handleSendToAI")
    ELSE sendTextToLLM(text)

\* ------------------------------------------------------------------ actions

Init ==
  /\ connectionStatus \in ConnectionStatus
  /\ loading \in BOOLEAN
  /\ communicationId = ""
  /\ config = InitialConfig
  /\ isBotConnected = "false"
  /\ localStorage \in { Null } \cup Ids
  /\ socket = 0
  /\ sockets = << >>
  /\ pingTimers = 0
  /\ pendingCreates = 0
  /\ mounted = FALSE
  /\ customPrompt = ""
  /\ promptReqs = << >>
  /\ lastSystemConfig = NotReceived
  /\ ev = Ev("init")

\* A new run of loadOrCreateCommunication may still create a socket.
RoomForSocket == Len(sockets) + pendingCreates < MaxSockets

\* The application mounts and dispatches loadOrCreateCommunication.
Mount ==
  /\ ~mounted
  /\ mounted' = TRUE
  /\ loadOrCreateCommunication(localStorage)
  /\ ev' = [ Ev("mount") EXCEPT !.runs = 1,
                                !.dispatched = RunDispatched(localStorage) ]
  /\ UNCHANGED << config, isBotConnected, localStorage, pingTimers,
                  customPrompt, promptReqs,
                  lastSystemConfig >>

CreateSuccess ==
  /\ pendingCreates > 0
  /\ pendingCreates' = pendingCreates - 1
  /\ \E id \in Ids : loadOrCreateCommunicationSuccess(id)

CreateFailure ==
  /\ pendingCreates > 0
  /\ pendingCreates' = pendingCreates - 1
  /\ loadOrCreateCommunicationFailure

SocketOpen ==
  \E s \in 1..Len(sockets) :
    /\ sockets[s].readyState = "CONNECTING"
    /\ sockets' = [ sockets EXCEPT ![s].readyState = "OPEN" ]
    /\ handleConnectionOnOpen
    /\ ev' = [ Ev("open") EXCEPT !.sock = s,
                                 !.dispatched = << "setConnectionStatus" >> ]
    /\ UNCHANGED << loading, communicationId, config, isBotConnected,
                    localStorage, socket, pendingCreates, mounted, customPrompt,
                    promptReqs,
                  lastSystemConfig >>

SocketMessage(payloads) ==
  \E s \in 1..Len(sockets), p \in payloads :
    /\ sockets[s].readyState \in { "OPEN", "CLOSING" }
    /\ p.type = "INVALID_COMMUNICATION_ID" => RoomForSocket
    /\ handleSocketOnMessage(s, p)

\* The connection fails: the browser closes the socket and fires error; close
\* follows.
SocketError ==
  \E s \in 1..Len(sockets) :
    /\ sockets[s].readyState \in { "CONNECTING", "OPEN", "CLOSING" }
    /\ sockets' = [ sockets EXCEPT ![s].readyState = "CLOSED" ]
    /\ handleSocketOnError
    /\ ev' = [ Ev("error") EXCEPT !.sock = s,
                                  !.dispatched = << "setConnectionStatus" >> ]
    /\ UNCHANGED << loading, communicationId, config, isBotConnected,
                    localStorage, socket, pingTimers, pendingCreates, mounted,
                    customPrompt, promptReqs,
                  lastSystemConfig >>

\* The backend starts the closing handshake.
SocketClosing ==
  \E s \in 1..Len(sockets) :
    /\ sockets[s].readyState = "OPEN"
    /\ sockets' = [ sockets EXCEPT ![s].readyState = "CLOSING" ]
    /\ ev' = [ Ev("closing") EXCEPT !.sock = s ]
    /\ UNCHANGED << connectionStatus, loading, communicationId, config,
                    isBotConnected, localStorage, socket, pingTimers,
                    pendingCreates, mounted, customPrompt, promptReqs,
                  lastSystemConfig >>

SocketClose ==
  \E s \in 1..Len(sockets) :
    /\ ~sockets[s].closeFired
    /\ sockets[s].readyState \in { "OPEN", "CLOSING", "CLOSED" }
    /\ sockets' = [ sockets EXCEPT ![s].readyState = "CLOSED",
                                   ![s].closeFired = TRUE ]
    /\ handleSocketOnClose
    /\ ev' = [ Ev("close") EXCEPT !.sock = s,
                                  !.dispatched = << "setConnectionStatus" >> ]
    /\ UNCHANGED << loading, communicationId, config, isBotConnected,
                    localStorage, socket, pingTimers, pendingCreates, mounted,
                    customPrompt, promptReqs,
                  lastSystemConfig >>

PingTick ==
  /\ pingTimers > 0
  /\ ev' = initPing
  /\ UNCHANGED << connectionStatus, loading, communicationId, config,
                  isBotConnected, localStorage, socket, sockets, pingTimers,
                  pendingCreates, mounted, customPrompt, promptReqs,
                  lastSystemConfig >>

PanelInput ==
  \E i \in PanelInputs :
    /\ mounted
    /\ IF PanelConfig(i) = NoConfig
         THEN ev' = Ev(i.h) /\ config' = config
         ELSE socketUpdateConfig(i.h, Undefined, PanelConfig(i))
    /\ UNCHANGED << connectionStatus, loading, communicationId, isBotConnected,
                    localStorage, socket, sockets, pingTimers, pendingCreates,
                    mounted, customPrompt, promptReqs,
                  lastSystemConfig >>

\* The operator edits the prompt box: setCustomPrompt(e.target.value).
TypePrompt ==
  \E p \in Prompts :
    /\ mounted
    /\ customPrompt' = p
    /\ ev' = Ev("setCustomPrompt")
    /\ UNCHANGED << connectionStatus, loading, communicationId, config,
                    isBotConnected, localStorage, socket, sockets, pingTimers,
                    pendingCreates, mounted, promptReqs,
                  lastSystemConfig >>

PromptSubmit ==
  /\ mounted
  /\ Len(promptReqs) < MaxPrompts
  /\ handlePromptSubmit

PromptAnswer ==
  \E i \in 1..Len(promptReqs), answer \in SuffixAnswers :
    /\ promptReqs[i].stage = "saving"
    /\ handlePromptSubmitAnswer(i, answer)

PromptDone ==
  \E i \in 1..Len(promptReqs) :
    /\ promptReqs[i].stage = "clearing"
    /\ handlePromptSubmitDone(i)

SendToAI ==
  \E text \in { "", "hello" } :
    /\ mounted
    /\ ev' = handleSendToAI(text)
    /\ UNCHANGED << connectionStatus, loading, communicationId, config,
                    isBotConnected, localStorage, socket, sockets, pingTimers,
                    pendingCreates, mounted, customPrompt, promptReqs,
                  lastSystemConfig >>

\* The program is checked in three parts, each a closed system over the same
\* state and handlers, because the product of all inputs is too large to
\* enumerate.

\* Connection lifecycle: one message of every type, with the data its branch
\* reads; every socket event; no operator input.
ConnPayloads ==
  { [ json |-> "object", type |-> t,
      data |-> Data(TRUE, FALSE, NoConfig, "msg", "true", "true", "hi", Undefined) ] :
      t \in InboundTypes }

NextConn ==
  \/ Mount
  \/ CreateSuccess
  \/ CreateFailure
  \/ SocketOpen
  \/ SocketMessage(ConnPayloads)
  \/ SocketError
  \/ SocketClosing
  \/ SocketClose
  \/ PingTick

SpecConn == Init /\ [][NextConn]_vars

\* The same, with what the await in loadOrCreateCommunication guarantees: a
\* createCommunication request in flight is answered, by onSuccess or by
\* onFailure.
SpecConnFair == SpecConn /\ WF_vars(CreateSuccess \/ CreateFailure)

\* Inbound routing: every payload whose handling stays on the socket it came
\* from, on a socket that opens and closes; no operator input.
RoutePayloads == { p \in Payloads : p.type # "INVALID_COMMUNICATION_ID" }

NextRoute ==
  \/ Mount
  \/ CreateSuccess
  \/ SocketOpen
  \/ SocketMessage(RoutePayloads)
  \/ SocketClose

SpecRoute == Init /\ [][NextRoute]_vars

\* Operator input against backend pushes: the messages that change or fail to
\* change the configuration, and every ControlPanel handler.
PanelPayloads ==
  { p \in Payloads : p.json = "object" /\ p.type = "SYSTEM_CONFIG"
                       /\ p.data # EmptyData /\ ~Truthy(p.data.message)
                       /\ ~Truthy(p.data.value) /\ ~Truthy(p.data.text)
                       /\ ~Truthy(p.data.audio) }

NextPanel ==
  \/ Mount
  \/ CreateSuccess
  \/ SocketOpen
  \/ SocketMessage(PanelPayloads)
  \/ SocketClosing
  \/ SocketClose
  \/ PingTick
  \/ PanelInput
  \/ TypePrompt
  \/ PromptSubmit
  \/ PromptAnswer
  \/ PromptDone
  \/ SendToAI

SpecPanel == Init /\ [][NextPanel]_vars

\* ------------------------------------------------------------------ claims

\* The step just taken handled an inbound message of type t.
IsMessage(t) == ev'.kind = "message" /\ ev'.type = t

\* The step just taken started a connection attempt: it created a socket or
\* called createCommunication.
StartedAttempt == Len(sockets') > Len(sockets) \/ pendingCreates' > pendingCreates

\* C1: loadOrCreateCommunication is re-run exactly once per received
\* INVALID_COMMUNICATION_ID message and by no other event after the mount; a
\* socket error, a socket close, a CLOSE_CONNECTION message or a
\* NEW_CONTROL_PANEL_DETECTED message opens no socket and calls no
\* createCommunication.
C1_ReconnectOnlyOnInvalidId ==
  [][ /\ IsMessage("INVALID_COMMUNICATION_ID") =>
           /\ ev'.runs = 1
           /\ Len(sockets') - Len(sockets) + pendingCreates' - pendingCreates = 1
      /\ ev'.runs # 0 => IsMessage("INVALID_COMMUNICATION_ID") \/ ev'.kind = "mount"
      /\ StartedAttempt =>
           \/ IsMessage("INVALID_COMMUNICATION_ID")
           \/ ev'.kind = "mount"
           \/ ev'.kind = "createSuccess" /\ pendingCreates' = pendingCreates - 1
      /\ ( \/ ev'.kind \in { "error", "close" }
           \/ IsMessage("CLOSE_CONNECTION")
           \/ IsMessage("NEW_CONTROL_PANEL_DETECTED") ) =>
           /\ Len(sockets') = Len(sockets)
           /\ pendingCreates' = pendingCreates
    ]_vars

\* C1 witness: an INVALID_COMMUNICATION_ID message was just handled on an open
\* socket and its createCommunication call is in flight.
C1_Witness ==
  /\ ev.kind = "message" /\ ev.type = "INVALID_COMMUNICATION_ID" /\ ev.runs = 1
  /\ pendingCreates = 1
  /\ Len(sockets) = 1

\* C2: the connection status is always one of CONNECTING, CONNECTED,
\* NOT_CONNECTED; a run of loadOrCreateCommunication sets CONNECTING, a socket
\* open sets CONNECTED, a socket error or close and a failed
\* createCommunication set NOT_CONNECTED, and nothing else changes it.
C2_StatusSteps ==
  /\ [](connectionStatus \in ConnectionStatus)
  /\ [][ /\ ev'.runs = 1 => connectionStatus' = "CONNECTING"
         /\ ev'.kind = "open" => connectionStatus' = "CONNECTED"
         /\ ev'.kind \in { "error", "close", "createFailure" } =>
              connectionStatus' = "NOT_CONNECTED"
         /\ ( /\ ev'.runs = 0
              /\ ev'.kind \notin { "open", "error", "close", "createFailure" } ) =>
              connectionStatus' = connectionStatus
       ]_vars

\* C2 witness: a second socket has opened after the first one failed, so the
\* status has gone through all three values.
C2_Witness ==
  /\ Len(sockets) = 2
  /\ sockets[1].readyState = "CLOSED"
  /\ sockets[2].readyState = "OPEN"
  /\ ev.kind = "open"
  /\ connectionStatus = "CONNECTED"

\* C3: once a SYSTEM_CONFIG message has been received, the store's config is
\* parseSocketConfig of the config of the most recently received one, whatever
\* the client has sent in between.
C3_LastWriteWins ==
  lastSystemConfig # NotReceived =>
    /\ lastSystemConfig # MissingConfig
    /\ config = parseSocketConfig(lastSystemConfig)

\* The step just taken called socketUpdateConfig.
CalledSocketUpdateConfig ==
  /\ ev'.kind \in PanelHandlers \cup { "promptSaved" }
  /\ ev'.dispatched = << "doNothing" >>

C4_AtMostOnePingTimer == pingTimers <= 1

\* C6: the key is written only by a successful createCommunication, with the
\* id returned; it is removed only by INVALID_COMMUNICATION_ID; and once
\* loadOrCreateCommunication has run, a key that is present holds the store's
\* communicationId.
C6_StoredIdIsStoreId ==
  /\ [](mounted /\ localStorage # Null => localStorage = communicationId)
  /\ [][ /\ localStorage' # localStorage =>
              \/ ev'.kind = "createSuccess" /\ localStorage' = ev'.arg
              \/ IsMessage("INVALID_COMMUNICATION_ID") /\ localStorage' = Null
         /\ ev'.kind = "createSuccess" => localStorage' = ev'.arg
       ]_vars

\* C6 witness: after a reconnection the key holds the id of the second socket.
C6_Witness ==
  /\ mounted
  /\ Len(sockets) = 2
  /\ localStorage # Null
  /\ localStorage = sockets[2].id
  /\ localStorage # sockets[1].id

\* C7: a message whose type is none of the nine dispatches doNothing and
\* nothing else, shows no snackbar, and leaves the connection status, config,
\* communicationId, isBotConnected, localStorage and the socket as they were.
\* (JSON null, from which no type can be read, throws before the switch; it
\* dispatches nothing and changes nothing either.)
C7_UnknownTypeIsNoOp ==
  [][ ( ev'.kind = "message" /\ ev'.type \notin socketReceiveMsgTypes ) =>
        /\ ~ev'.threw => ev'.dispatched = << "doNothing" >>
        /\ ev'.threw => ev'.dispatched = << >>
        /\ ev'.snackbar = NoSnackbar
        /\ ev'.runs = 0
        /\ UNCHANGED << connectionStatus, config, communicationId, isBotConnected,
                        localStorage, socket, sockets, loading, pingTimers,
                        pendingCreates >>
    ]_vars

\* C7 witness: a message of an unknown type was just handled in a session
\* whose store has been filled by earlier messages.
C7_Witness ==
  /\ ev.kind = "message"
  /\ ev.type = "SOMETHING_ELSE"
  /\ ev.dispatched = << "doNothing" >>
  /\ connectionStatus = "CONNECTED"
  /\ isBotConnected = "true"
  /\ lastSystemConfig \in ServerConfigs

\* C8: when handlePromptSubmit has saved the prompt, the UPDATE_CONFIG message
\* written to the socket carries the saved prompt.
C8_UpdateCarriesPrompt ==
  ( ev.kind = "promptSaved" /\ ev.sent.type = "UPDATE_CONFIG" ) =>
    Get(ev.sent.config, "custom_prompt_suffix") = ev.arg

\* C9: on INVALID_COMMUNICATION_ID the key is removed before
\* loadOrCreateCommunication runs again, so that run opens no socket and calls
\* createCommunication; when that call succeeds the new socket is opened with
\* the id returned, which is then also the store's and the stored id.
C9_StaleIdNotReused ==
  [][ /\ IsMessage("INVALID_COMMUNICATION_ID") =>
           /\ localStorage' = Null
           /\ sockets' = sockets
           /\ socket' = socket
           /\ pendingCreates' = pendingCreates + 1
      /\ ev'.kind = "createSuccess" =>
           /\ Len(sockets') = Len(sockets) + 1
           /\ socket' = Len(sockets')
           /\ sockets'[socket'].id = ev'.arg
           /\ communicationId' = ev'.arg
           /\ localStorage' = ev'.arg
    ]_vars

\* C9 witness: the replacement socket has just been created, with an id other
\* than the rejected one.
C9_Witness ==
  /\ ev.kind = "createSuccess"
  /\ Len(sockets) = 2
  /\ sockets[1].id # sockets[2].id
  /\ communicationId = sockets[2].id
  /\ localStorage = sockets[2].id

\* C10, in the case it names: the most recently created socket is open and
\* its open event handled, and the event just delivered is the error or close
\* of a socket it replaced; the status is CONNECTED.
C10_StatusAgreesAfterStaleEvent ==
  ( /\ socket # 0
    /\ socket = Len(sockets)
    /\ sockets[socket].readyState = "OPEN"
    /\ ev.kind \in { "error", "close" }
    /\ ev.sock # socket ) =>
    connectionStatus = "CONNECTED"

\* C11: every run of loadOrCreateCommunication, which sets loading to true, is
\* eventually followed by loading being false.
C11_LoadingEventuallyFalse == (ev.runs = 1) ~> (loading = FALSE)

\* The step just taken called handleSocketMessageSend with a message of
\* type t.
Attempted(t) ==
  CASE t = "UPDATE_CONFIG" -> CalledSocketUpdateConfig
    [] t = "SEND_TEXT" ->
         ev'.kind = "sendTextToLLM" /\ ev'.snackbar.type = "INFO"
    [] t = "PING" -> ev'.kind = "ping"
    [] OTHER -> FALSE

SocketIsOpen == socket # 0 /\ sockets[socket].readyState = "OPEN"

\* C12: handleSocketMessageSend writes UPDATE_CONFIG, SEND_TEXT or PING to the
\* socket exactly when the socket exists and is OPEN; otherwise the message is
\* dropped without an error, and no later step writes it: a step writes only
\* the message its own handler was given.
C12_SendOnlyWhenOpen ==
  [][ /\ \A t \in { "UPDATE_CONFIG", "SEND_TEXT", "PING" } :
           /\ Attempted(t) =>
                /\ ~ev'.threw
                /\ IF SocketIsOpen THEN ev'.sent.type = t ELSE ev'.sent = NoMsg
                /\ UNCHANGED << socket, sockets >>
           /\ ev'.sent.type = t => Attempted(t) /\ SocketIsOpen
      /\ ev'.sent.type \in { "none", "UPDATE_CONFIG", "SEND_TEXT", "PING" }
    ]_vars

\* C12 witness: the operator toggled the microphone while the socket was in
\* its closing handshake, and the UPDATE_CONFIG was dropped.
C12_Witness ==
  /\ ev.kind = "handleMicClick"
  /\ ev.dispatched = << "doNothing" >>
  /\ ev.sent = NoMsg
  /\ socket # 0
  /\ sockets[socket].readyState = "CLOSING"

\* C13: handling an inbound message never fails, whatever the payload; text
\* that is not JSON is handled as UI_ERROR, shown as the error snackbar
\* 'Error parsing json!' and nothing else.
C13_HandlingNeverFails ==
  ev.kind = "message" =>
    /\ ~ev.threw
    /\ ev.snackbar.message = "Error parsing json!" =>
         /\ ev.type = "UI_ERROR"
         /\ ev.snackbar.type = "ERROR"
         /\ ev.dispatched = << "showSnackbar" >>

\* C14: a failed createCommunication shows an error snackbar, sets loading
\* false and the status NOT_CONNECTED, writes nothing to localStorage, leaves
\* the store's communicationId and opens no socket; a run of
\* loadOrCreateCommunication calls createCommunication exactly when it reads
\* no stored id, and otherwise opens the socket with the stored id; nothing
\* else calls createCommunication.
C14_FailureAndStoredId ==
  [][ /\ ev'.kind = "createFailure" =>
           /\ ev'.snackbar.type = "ERROR"
           /\ loading' = FALSE
           /\ connectionStatus' = "NOT_CONNECTED"
           /\ UNCHANGED << localStorage, communicationId, socket, sockets >>
      /\ ev'.runs = 1 =>
           IF Truthy(localStorage')
             THEN /\ pendingCreates' = pendingCreates
                  /\ Len(sockets') = Len(sockets) + 1
                  /\ socket' = Len(sockets')
                  /\ sockets'[socket'].id = localStorage'
                  /\ communicationId' = localStorage'
             ELSE /\ pendingCreates' = pendingCreates + 1
                  /\ sockets' = sockets
      /\ pendingCreates' > pendingCreates => ev'.runs = 1
    ]_vars

\* C14 witness: the createCommunication call of a reconnection has just
\* failed; the first socket is still the only one.
C14_Witness ==
  /\ ev.kind = "createFailure"
  /\ ev.snackbar.type = "ERROR"
  /\ Len(sockets) = 1
  /\ communicationId = sockets[1].id
  /\ localStorage = Null
  /\ ~loading

====
